---- MODULE Spec2Model ----
(***************************************************************************)
(* Model of the Whisper backend: the transcription orchestrator            *)
(* (services/transcription_service.py), the persistence layer              *)
(* (db/crud/crud_transcript.py, db/models.py) and the session scope        *)
(* (core/database.py).                                                     *)
(*                                                                         *)
(* Strings are sequences of one-character strings, so that strip(),        *)
(* lower() and split('.') are computed rather than assumed.  audio_bytes   *)
(* is represented by its length: the code only reads len(audio_bytes) and  *)
(* hands the bytes to the external API.                                    *)
(***************************************************************************)
EXTENDS Integers, Sequences, FiniteSets, TLC

\* ---------------------------------------------------------------- bounds
MaxCalls == 2          \* transcribe_and_store calls that get past validation
MaxClock == 4          \* operations start only while the server clock is below

\* The request handlers that run concurrently, each with its own session.
Procs == {"h1", "h2"}

\* ------------------------------------------------------- program constants
MAX_FILE_SIZE == 25 * 1024 * 1024

mp3  == <<"m", "p", "3">>
wav  == <<"w", "a", "v">>
m4a  == <<"m", "4", "a">>
flac == <<"f", "l", "a", "c">>
ogg  == <<"o", "g", "g">>
webm == <<"w", "e", "b", "m">>
mp4  == <<"m", "p", "4">>
mpeg == <<"m", "p", "e", "g">>
mpga == <<"m", "p", "g", "a">>

SUPPORTED_FORMATS == {mp3, wav, m4a, flac, ogg, webm, mp4, mpeg, mpga}

\* TranscriptStatus members, and the labels the SAEnum column stores (it
\* stores a member's name and loads the member of that name).
completed == "TranscriptStatus.completed"
failed    == "TranscriptStatus.failed"

TranscriptStatus == {completed, failed}

SAEnumBind(member) == IF member = completed THEN "completed" ELSE "failed"

SAEnumResult(label) == IF label = "completed" THEN completed ELSE failed

\* ------------------------------------------------------------ input sets
\* Filenames: a supported extension in mixed case, an unsupported one and
\* none at all; lengths on both sides of each limit.
mp3_upper == <<"a", ".", "M", "p", "3">>
dot_x     == <<"b", ".", "x">>
no_ext    == <<"c">>

FileNames == {mp3_upper, dot_x, no_ext}

AudioLens == {0, 1, MAX_FILE_SIZE, MAX_FILE_SIZE + 1, 26 * 1024 * 1024}

Upload(filename, audio_len) == [filename |-> filename, audio_len |-> audio_len]

\* Every filename with every length.
Uploads == {Upload(filename, audio_len) : filename \in FileNames, audio_len \in AudioLens}

\* The uploads of the runs that go on to store rows: two that pass
\* validation and one for each way of failing it.
OrchUploads == { Upload(mp3_upper, 1), Upload(no_ext, MAX_FILE_SIZE),
                 Upload(dot_x, 0), Upload(dot_x, MAX_FILE_SIZE + 1) }

\* What the API hands back with response_format="text": a string, possibly
\* empty or padded with whitespace, or nothing at all.
ApiTexts == { <<>>, <<" ", "h", " ", "i", "\n">> }

\* ------------------------------------------------------- string functions
Upper == <<"A", "B", "C", "D", "E", "F", "G", "H", "I", "J", "K", "L", "M",
           "N", "O", "P", "Q", "R", "S", "T", "U", "V", "W", "X", "Y", "Z">>
Lower == <<"a", "b", "c", "d", "e", "f", "g", "h", "i", "j", "k", "l", "m",
           "n", "o", "p", "q", "r", "s", "t", "u", "v", "w", "x", "y", "z">>

\* str.lower() on one character
LowerChar(c) ==
    IF \E i \in 1 .. Len(Upper) : Upper[i] = c
    THEN Lower[CHOOSE i \in 1 .. Len(Upper) : Upper[i] = c]
    ELSE c

\* str.lower()
StrLower(s) == [i \in 1 .. Len(s) |-> LowerChar(s[i])]

\* s.split('.')[-1]: what follows the last dot (all of s when it has none)
LastDotPart(s) ==
    LET dots == {i \in 1 .. Len(s) : s[i] = "."}
        last == IF dots = {} THEN 0 ELSE CHOOSE i \in dots : \A j \in dots : j <= i
    IN  SubSeq(s, last + 1, Len(s))

IsSpace(c) == c \in {" ", "\n", "\t", "\r"}

\* str.strip(): drop leading and trailing whitespace
Strip(s) ==
    LET keep == {i \in 1 .. Len(s) : ~IsSpace(s[i])}
    IN  IF keep = {} THEN <<>>
        ELSE SubSeq(s, CHOOSE i \in keep : \A j \in keep : i <= j,
                       CHOOSE i \in keep : \A j \in keep : j <= i)

\* --------------------------------------------------------------- state
VARIABLES
    table,       \* the transcripts table: committed rows, in commit order
    clock,       \* the database server's clock
    sess,        \* per handler: its session (state, open transaction, closes)
    pc,          \* per handler: where it stands inside transcribe_and_store
    call,        \* per handler: the locals of its transcribe_and_store call
    result,      \* per handler: the outcome of its last finished operation
    groq_calls   \* requests the transcription API has received

vars == <<table, clock, sess, pc, call, result, groq_calls>>

\* ------------------------------------------------- validation (pure part)
\* get_audio_duration: the placeholder
get_audio_duration(audio_len) == 0

\* The extension validate_audio_file looks at.
file_extension(filename) ==
    IF \E i \in 1 .. Len(filename) : filename[i] = "."
    THEN LastDotPart(StrLower(filename))
    ELSE <<>>

\* validate_audio_file without its empty-file check.
validate_audio_file_no_empty_check(audio_len, filename) ==
    IF audio_len > MAX_FILE_SIZE
    THEN [exc |-> "ValueError", warned |-> FALSE]
    ELSE [exc |-> "", warned |-> file_extension(filename) \notin SUPPORTED_FORMATS]

\* validate_audio_file with the size limit off by one (>= for >).
validate_audio_file_inclusive_limit(audio_len, filename) ==
    IF audio_len >= MAX_FILE_SIZE
    THEN [exc |-> "ValueError", warned |-> FALSE]
    ELSE IF audio_len = 0
    THEN [exc |-> "ValueError", warned |-> FALSE]
    ELSE [exc |-> "", warned |-> file_extension(filename) \notin SUPPORTED_FORMATS]

\* validate_audio_file: the exception it raises ("" for none) and whether it
\* logged the unsupported-format warning.
validate_audio_file(audio_len, filename) ==
    IF audio_len > MAX_FILE_SIZE
    THEN [exc |-> "ValueError", warned |-> FALSE]
    ELSE IF audio_len = 0
    THEN [exc |-> "ValueError", warned |-> FALSE]
    ELSE [exc |-> "", warned |-> file_extension(filename) \notin SUPPORTED_FORMATS]

\* ------------------------------------------------------ persistence layer
\* A Session with autocommit=False begins a transaction at its first
\* statement and keeps it until commit, rollback or close.  tx is the start
\* time of the open transaction, 0 when there is none.
SessionLocal == [state |-> "open", tx |-> 0, closes |-> 0]

NoSession == [state |-> "none", tx |-> 0, closes |-> 0]

\* The session after its first statement, and the clock after it.
Autobegin(db, clk) ==
    IF db.tx = 0
    THEN [db |-> [db EXCEPT !.tx = clk + 1], clock |-> clk + 1]
    ELSE [db |-> db, clock |-> clk]

\* Session.rollback(), Session.commit(): the transaction ends
EndTx(db) == [db EXCEPT !.tx = 0]

\* Session.close()
SessionClose(db) == [db EXCEPT !.state = "closed", !.tx = 0, !.closes = @ + 1]

\* Transcript built without the status of the record, so that the column
\* default (completed) applies.
Transcript_default_status(transcript, id, now) ==
    [id               |-> id,
     source_filename  |-> transcript.source_filename,
     duration_seconds |-> transcript.duration_seconds,
     raw_text         |-> transcript.raw_text,
     status           |-> SAEnumBind(completed),
     created_at       |-> now]

\* models.Transcript(**transcript.model_dump()) as the INSERT stores it: id
\* from the uuid4 default, created_at from server_default now(), which is
\* the start time of the inserting transaction.
Transcript(transcript, id, now) ==
    [id               |-> id,
     source_filename  |-> transcript.source_filename,
     duration_seconds |-> transcript.duration_seconds,
     raw_text         |-> transcript.raw_text,
     status           |-> SAEnumBind(transcript.status),
     created_at       |-> now]

\* A table row as the ORM loads it.
LoadRow(r) == [r EXCEPT !.status = SAEnumResult(@)]

LoadRows(rs) == [i \in 1 .. Len(rs) |-> LoadRow(rs[i])]

\* filter(Transcript.id == transcript_id): the rows with that id, in order
RECURSIVE FilterById(_, _)
FilterById(tbl, transcript_id) ==
    IF tbl = <<>> THEN <<>>
    ELSE IF Head(tbl).id = transcript_id
         THEN <<Head(tbl)>> \o FilterById(Tail(tbl), transcript_id)
         ELSE FilterById(Tail(tbl), transcript_id)

\* Query.first()
First(rs) == IF rs = <<>> THEN <<>> ELSE <<Head(rs)>>

\* order_by(desc(Transcript.created_at))
RECURSIVE OrderByCreatedAtDesc(_)
OrderByCreatedAtDesc(tbl) ==
    IF tbl = <<>> THEN <<>>
    ELSE LET i == CHOOSE k \in 1 .. Len(tbl) :
                     \A j \in 1 .. Len(tbl) :
                         \/ tbl[j].created_at < tbl[k].created_at
                         \/ tbl[j].created_at = tbl[k].created_at /\ k <= j
             rest == SubSeq(tbl, 1, i - 1) \o SubSeq(tbl, i + 1, Len(tbl))
         IN  <<tbl[i]>> \o OrderByCreatedAtDesc(rest)

\* .offset(skip).limit(limit)
OffsetLimit(rs, skip, limit) ==
    SubSeq(rs, skip + 1, IF skip + limit < Len(rs) THEN skip + limit ELSE Len(rs))

\* The ids of the rows of a table.
IdsOf(tbl) == {tbl[i].id : i \in 1 .. Len(tbl)}

\* What uuid.uuid4 may draw: an id some row already has, or one that none
\* has.  The unused ids are interchangeable, so the least one stands for all.
\* FreshId is also what a lookup of an id absent from the table uses.
FreshId(tbl) == CHOOSE id \in 1 .. Len(tbl) + 1 : id \notin IdsOf(tbl)

uuid4(tbl) == IdsOf(tbl) \cup {FreshId(tbl)}

\* get_transcript_by_id without its filter: the first row of the table.
get_transcript_by_id_unfiltered(db, tbl, clk, transcript_id, fault) ==
    IF fault
    THEN [db |-> EndTx(db), clock |-> clk, exc |-> "SQLAlchemyError", rows |-> <<>>]
    ELSE [db    |-> Autobegin(db, clk).db,
          clock |-> Autobegin(db, clk).clock,
          exc   |-> "",
          rows  |-> LoadRows(First(tbl))]

\* get_transcript_by_id: fault is whether the query meets a database error.
get_transcript_by_id(db, tbl, clk, transcript_id, fault) ==
    IF fault
    THEN [db |-> EndTx(db), clock |-> clk, exc |-> "SQLAlchemyError", rows |-> <<>>]
    ELSE [db    |-> Autobegin(db, clk).db,
          clock |-> Autobegin(db, clk).clock,
          exc   |-> "",
          rows  |-> LoadRows(First(FilterById(tbl, transcript_id)))]

\* get_all_transcripts
get_all_transcripts(db, tbl, clk, skip, limit, fault) ==
    IF fault
    THEN [db |-> EndTx(db), clock |-> clk, exc |-> "SQLAlchemyError", rows |-> <<>>]
    ELSE [db    |-> Autobegin(db, clk).db,
          clock |-> Autobegin(db, clk).clock,
          exc   |-> "",
          rows  |-> LoadRows(OffsetLimit(OrderByCreatedAtDesc(tbl), skip, limit))]

\* get_transcript_count
get_transcript_count(db, tbl, clk, fault) ==
    IF fault
    THEN [db |-> EndTx(db), clock |-> clk, exc |-> "SQLAlchemyError", n |-> 0]
    ELSE [db    |-> Autobegin(db, clk).db,
          clock |-> Autobegin(db, clk).clock,
          exc   |-> "",
          n     |-> Len(tbl)]

\* create_transcript that retries in place: it overwrites the newest row
\* when that row is a failed one, instead of adding a row.
create_transcript_overwrite(db, tbl, clk, transcript, id, fault) ==
    LET begun         == Autobegin(db, clk)
        db_transcript == Transcript(transcript, id, begun.db.tx)
        committed     ==
            IF tbl # <<>> /\ tbl[Len(tbl)].status = "failed"
            THEN [tbl EXCEPT ![Len(tbl)] = db_transcript]
            ELSE Append(tbl, db_transcript)
        refreshed     == Autobegin(EndTx(begun.db), begun.clock)
    IN  IF fault = "commit" \/ \E i \in 1 .. Len(tbl) : tbl[i].id = id
        THEN [db |-> EndTx(begun.db), table |-> tbl, clock |-> begun.clock,
              exc |-> "SQLAlchemyError", rows |-> <<>>]
        ELSE IF fault = "refresh"
        THEN [db |-> EndTx(begun.db), table |-> committed, clock |-> begun.clock,
              exc |-> "SQLAlchemyError", rows |-> <<>>]
        ELSE [db |-> refreshed.db, table |-> committed, clock |-> refreshed.clock,
              exc |-> "",
              rows |-> LoadRows(First(FilterById(committed, id)))]

\* create_transcript that deduplicates: a record equal to a stored one is
\* not inserted, the stored row is returned.
create_transcript_dedup(db, tbl, clk, transcript, id, fault) ==
    LET begun         == Autobegin(db, clk)
        db_transcript == Transcript(transcript, id, begun.db.tx)
        same          == {i \in 1 .. Len(tbl) :
                            /\ tbl[i].source_filename = transcript.source_filename
                            /\ tbl[i].raw_text = transcript.raw_text
                            /\ tbl[i].status = SAEnumBind(transcript.status)}
        committed     == IF same = {} THEN Append(tbl, db_transcript) ELSE tbl
        found         == IF same = {} THEN id ELSE tbl[CHOOSE i \in same : TRUE].id
        refreshed     == Autobegin(EndTx(begun.db), begun.clock)
    IN  IF fault = "commit" \/ (same = {} /\ \E i \in 1 .. Len(tbl) : tbl[i].id = id)
        THEN [db |-> EndTx(begun.db), table |-> tbl, clock |-> begun.clock,
              exc |-> "SQLAlchemyError", rows |-> <<>>]
        ELSE IF fault = "refresh"
        THEN [db |-> EndTx(begun.db), table |-> committed, clock |-> begun.clock,
              exc |-> "SQLAlchemyError", rows |-> <<>>]
        ELSE [db |-> refreshed.db, table |-> committed, clock |-> refreshed.clock,
              exc |-> "",
              rows |-> LoadRows(First(FilterById(committed, found)))]

\* create_transcript.  id is the value uuid4 draws; fault is where a database
\* error strikes: "none", "commit" (the INSERT or the COMMIT fails, and so
\* does an INSERT whose id the primary key already holds) or "refresh" (the
\* row is committed and the SELECT of db.refresh fails).  The except branch
\* rolls back and re-raises in both cases.
CreateFaults == {"none", "commit", "refresh"}

create_transcript(db, tbl, clk, transcript, id, fault) ==
    LET begun         == Autobegin(db, clk)
        db_transcript == Transcript(transcript, id, begun.db.tx)
        committed     == Append(tbl, db_transcript)
        refreshed     == Autobegin(EndTx(begun.db), begun.clock)
    IN  IF fault = "commit" \/ \E i \in 1 .. Len(tbl) : tbl[i].id = id
        THEN [db |-> EndTx(begun.db), table |-> tbl, clock |-> begun.clock,
              exc |-> "SQLAlchemyError", rows |-> <<>>]
        ELSE IF fault = "refresh"
        THEN [db |-> EndTx(begun.db), table |-> committed, clock |-> begun.clock,
              exc |-> "SQLAlchemyError", rows |-> <<>>]
        ELSE [db |-> refreshed.db, table |-> committed, clock |-> refreshed.clock,
              exc |-> "",
              rows |-> LoadRows(First(FilterById(committed, id)))]

\* ----------------------------------------------------------- orchestrator
\* TranscriptCreate(...)
TranscriptCreate(source_filename, duration_seconds, raw_text, status) ==
    [source_filename  |-> source_filename,
     duration_seconds |-> duration_seconds,
     raw_text         |-> raw_text,
     status           |-> status]

NoData == TranscriptCreate(<<>>, 0, <<>>, completed)

\* The outcome of an operation as its caller sees it: the exception raised
\* ("" for a normal return) with its message and its cause, and the value
\* returned.  The arguments of the operation are kept beside it.
Outcome(op, exc, msg, rows, n, id, text) ==
    [op |-> op, exc |-> exc, msg |-> msg, rows |-> rows, n |-> n, id |-> id,
     text |-> text, skip |-> 0, limit |-> 0, data |-> NoData]

NoResult == Outcome("", "", "", <<>>, 0, 0, <<>>)

\* The API's answer: nothing (None) or a string.
ApiNone == [none |-> TRUE, s |-> <<>>]

ApiText(s) == [none |-> FALSE, s |-> s]

ApiReturns == {ApiNone} \cup {ApiText(s) : s \in ApiTexts}

\* The locals of a transcribe_and_store call.
NewCall(filename, audio_len) ==
    [filename |-> filename, audio_len |-> audio_len, api |-> "none",
     transcription |-> ApiNone, attempts |-> 0, db_transcript |-> <<>>,
     warned |-> validate_audio_file(audio_len, filename).warned]

NoCall == [filename |-> <<>>, audio_len |-> 0, api |-> "none",
           transcription |-> ApiNone, attempts |-> 0, db_transcript |-> <<>>,
           warned |-> FALSE]

\* raw_text taken from the API as it is, without strip().
raw_text_unstripped(transcription) ==
    IF transcription.none THEN <<>> ELSE transcription.s

\* raw_text = transcription.strip() if transcription else ""
raw_text_of(transcription) ==
    IF transcription.none \/ transcription.s = <<>> THEN <<>>
    ELSE Strip(transcription.s)

\* The except branch of the API call: build the failed record, store it,
\* raise RuntimeError from the API error.  A database error of
\* create_transcript leaves the branch before the raise.
except_branch(db, tbl, clk, filename, audio_len, id, fault) ==
    LET failed_transcript ==
            TranscriptCreate(filename, get_audio_duration(audio_len), <<>>, failed)
        c == create_transcript(db, tbl, clk, failed_transcript, id, fault)
    IN  [db |-> c.db, table |-> c.table, clock |-> c.clock, attempts |-> 1,
         db_transcript |-> c.rows,
         result |->
            IF c.exc # ""
            THEN Outcome("transcribe", c.exc, "", <<>>, 0, 0, <<>>)
            ELSE Outcome("transcribe", "RuntimeError", "Groq transcription failed",
                         <<>>, 0, 0, <<>>)]

\* After a successful API call: trim, store the completed record, return
\* (id, raw_text); a failure of create_transcript becomes RuntimeError.
success_branch(db, tbl, clk, filename, audio_len, transcription, id, fault) ==
    LET raw_text      == raw_text_of(transcription)
        transcript_in ==
            TranscriptCreate(filename, get_audio_duration(audio_len), raw_text,
                             completed)
        c == create_transcript(db, tbl, clk, transcript_in, id, fault)
    IN  [db |-> c.db, table |-> c.table, clock |-> c.clock, attempts |-> 1,
         db_transcript |-> c.rows,
         result |->
            IF c.exc # ""
            THEN Outcome("transcribe", "RuntimeError", "Failed to store transcript",
                         <<>>, 0, 0, <<>>)
            ELSE Outcome("transcribe", "", "", <<>>, 0, c.rows[1].id, raw_text)]

\* ---------------------------------------------------------------- actions
Init ==
    /\ table = <<>>
    /\ clock = 0
    /\ sess = [p \in Procs |-> NoSession]
    /\ pc = [p \in Procs |-> "idle"]
    /\ call = [p \in Procs |-> NoCall]
    /\ result = [p \in Procs |-> NoResult]
    /\ groq_calls = 0

\* A handler may start an operation: it holds an open session and is not
\* inside transcribe_and_store.
Ready(p) == sess[p].state = "open" /\ pc[p] = "idle" /\ clock < MaxClock

\* The calls past validation so far, those waiting for the API included.
Calls == groq_calls + Cardinality({p \in Procs : pc[p] = "api"})

\* get_db up to its yield (and SessionLocal() in a caller that scopes the
\* session itself): a new session for a new request.
GetDbYield(p) ==
    /\ sess[p].state # "open"
    /\ pc[p] = "idle"
    /\ sess' = [sess EXCEPT ![p] = SessionLocal]
    /\ result' = [result EXCEPT ![p] = NoResult]
    /\ call' = [call EXCEPT ![p] = NoCall]
    /\ UNCHANGED <<table, clock, pc, groq_calls>>

\* get_db without the finally block: the session is left as it is.
get_db_never_closes(db) == db

\* get_db's finally: the handler is over (returned or raised), db.close().
get_db_finally(db) == SessionClose(db)

GetDbFinally(p) ==
    /\ sess[p].state = "open"
    /\ pc[p] = "idle"
    /\ sess' = [sess EXCEPT ![p] = get_db_finally(sess[p])]
    /\ UNCHANGED <<table, clock, pc, call, result, groq_calls>>

\* transcribe_and_store, entry and validation.
TranscribeValidate(p, filename, audio_len) ==
    /\ Ready(p)
    /\ Calls < MaxCalls
    /\ call' = [call EXCEPT ![p] = NewCall(filename, audio_len)]
    /\ IF validate_audio_file(audio_len, filename).exc # ""
       THEN /\ result' = [result EXCEPT ![p] =
                  Outcome("transcribe", validate_audio_file(audio_len, filename).exc,
                          "", <<>>, 0, 0, <<>>)]
            /\ pc' = pc
       ELSE /\ result' = [result EXCEPT ![p] = NoResult]
            /\ pc' = [pc EXCEPT ![p] = "api"]
    /\ UNCHANGED <<table, clock, sess, groq_calls>>

\* client.audio.transcriptions.create raises.
TranscribeApiRaises(p) ==
    /\ pc[p] = "api"
    /\ groq_calls' = groq_calls + 1
    /\ call' = [call EXCEPT ![p].api = "raised"]
    /\ pc' = [pc EXCEPT ![p] = "except"]
    /\ UNCHANGED <<table, clock, sess, result>>

\* client.audio.transcriptions.create returns.
TranscribeApiReturns(p, transcription) ==
    /\ pc[p] = "api"
    /\ groq_calls' = groq_calls + 1
    /\ call' = [call EXCEPT ![p].api = "returned", ![p].transcription = transcription]
    /\ pc' = [pc EXCEPT ![p] = "store"]
    /\ UNCHANGED <<table, clock, sess, result>>

\* The except branch, to the end of the call.
TranscribeExcept(p, id, fault) ==
    LET b == except_branch(sess[p], table, clock, call[p].filename,
                           call[p].audio_len, id, fault)
    IN  /\ pc[p] = "except"
        /\ table' = b.table
        /\ clock' = b.clock
        /\ sess' = [sess EXCEPT ![p] = b.db]
        /\ call' = [call EXCEPT ![p].attempts = @ + b.attempts,
                                ![p].db_transcript = b.db_transcript]
        /\ result' = [result EXCEPT ![p] = b.result]
        /\ pc' = [pc EXCEPT ![p] = "idle"]
        /\ UNCHANGED groq_calls

\* The success path, to the end of the call.
TranscribeStore(p, id, fault) ==
    LET b == success_branch(sess[p], table, clock, call[p].filename,
                            call[p].audio_len, call[p].transcription, id, fault)
    IN  /\ pc[p] = "store"
        /\ table' = b.table
        /\ clock' = b.clock
        /\ sess' = [sess EXCEPT ![p] = b.db]
        /\ call' = [call EXCEPT ![p].attempts = @ + b.attempts,
                                ![p].db_transcript = b.db_transcript]
        /\ result' = [result EXCEPT ![p] = b.result]
        /\ pc' = [pc EXCEPT ![p] = "idle"]
        /\ UNCHANGED groq_calls

\* Records handed straight to create_transcript.
Datas == { TranscriptCreate(no_ext, 7, <<"h">>, completed),
           TranscriptCreate(dot_x, 0, <<>>, failed) }

CreateTranscript(p, d, id, fault) ==
    LET c == create_transcript(sess[p], table, clock, d, id, fault)
    IN  /\ Ready(p)
        /\ table' = c.table
        /\ clock' = c.clock
        /\ sess' = [sess EXCEPT ![p] = c.db]
        /\ result' = [result EXCEPT ![p] =
              [Outcome("create", c.exc, "", c.rows, 0, 0, <<>>) EXCEPT !.data = d]]
        /\ UNCHANGED <<pc, call, groq_calls>>

GetTranscriptById(p, transcript_id, fault) ==
    LET g == get_transcript_by_id(sess[p], table, clock, transcript_id, fault)
    IN  /\ Ready(p)
        /\ clock' = g.clock
        /\ sess' = [sess EXCEPT ![p] = g.db]
        /\ result' = [result EXCEPT ![p] =
              Outcome("get", g.exc, "", g.rows, 0, transcript_id, <<>>)]
        /\ UNCHANGED <<table, pc, call, groq_calls>>

Skips == {0, 1}

Limits == {1, 2}

GetAllTranscripts(p, skip, limit, fault) ==
    LET g == get_all_transcripts(sess[p], table, clock, skip, limit, fault)
    IN  /\ Ready(p)
        /\ clock' = g.clock
        /\ sess' = [sess EXCEPT ![p] = g.db]
        /\ result' = [result EXCEPT ![p] =
              [Outcome("list", g.exc, "", g.rows, 0, 0, <<>>)
                   EXCEPT !.skip = skip, !.limit = limit]]
        /\ UNCHANGED <<table, pc, call, groq_calls>>

GetTranscriptCount(p, fault) ==
    LET g == get_transcript_count(sess[p], table, clock, fault)
    IN  /\ Ready(p)
        /\ clock' = g.clock
        /\ sess' = [sess EXCEPT ![p] = g.db]
        /\ result' = [result EXCEPT ![p] =
              Outcome("count", g.exc, "", <<>>, g.n, 0, <<>>)]
        /\ UNCHANGED <<table, pc, call, groq_calls>>

\* One step of a handler, by component.
SessionStep(p) == GetDbYield(p) \/ GetDbFinally(p)

OrchStep(p, uploads) ==
    \/ \E u \in uploads : TranscribeValidate(p, u.filename, u.audio_len)
    \/ TranscribeApiRaises(p)
    \/ \E transcription \in ApiReturns : TranscribeApiReturns(p, transcription)
    \/ \E id \in uuid4(table), fault \in CreateFaults : TranscribeExcept(p, id, fault)
    \/ \E id \in uuid4(table), fault \in CreateFaults : TranscribeStore(p, id, fault)

WriteStep(p, datas) ==
    \E d \in datas, id \in uuid4(table), fault \in CreateFaults :
        CreateTranscript(p, d, id, fault)

ReadStep(p) ==
    \/ \E transcript_id \in uuid4(table), fault \in BOOLEAN :
           GetTranscriptById(p, transcript_id, fault)
    \/ \E skip \in Skips, limit \in Limits, fault \in BOOLEAN :
           GetAllTranscripts(p, skip, limit, fault)
    \/ \E fault \in BOOLEAN : GetTranscriptCount(p, fault)

\* Spec: one handler runs every operation, in any order.
SpecUploads == {Upload(mp3_upper, 1), Upload(dot_x, 0)}

SpecDatas == {TranscriptCreate(no_ext, 7, <<"h">>, completed)}

Next ==
    \/ SessionStep("h1")
    \/ OrchStep("h1", SpecUploads)
    \/ WriteStep("h1", SpecDatas)
    \/ ReadStep("h1")

Spec == Init /\ [][Next]_vars

\* OrchSpec: concurrent handlers run transcribe_and_store.
NextOrch == \E p \in Procs : SessionStep(p) \/ OrchStep(p, OrchUploads)

OrchSpec == Init /\ [][NextOrch]_vars

\* CrudSpec: one handler reads and writes while another writes.
NextCrud ==
    \/ \E p \in Procs : SessionStep(p) \/ WriteStep(p, Datas)
    \/ ReadStep("h1")

CrudSpec == Init /\ [][NextCrud]_vars

\* ValidateSpec: one handler submits every upload.
NextValidate == SessionStep("h1") \/ OrchStep("h1", Uploads)

ValidateSpec == Init /\ [][NextValidate]_vars

\* SessSpec: concurrent handlers, each in its get_db scope, run
\* transcribe_and_store on an upload that passes validation or one that
\* fails it.  FairSessSpec adds that a started call runs to its end (the API
\* client answers or gives up, the database answers) and that a handler
\* that is over has its get_db generator resumed.
NextSess == \E p \in Procs : SessionStep(p) \/ OrchStep(p, SpecUploads)

SessSpec == Init /\ [][NextSess]_vars

FairSessSpec ==
    /\ SessSpec
    /\ \A p \in Procs :
        /\ WF_vars(GetDbFinally(p))
        /\ WF_vars(TranscribeApiRaises(p)
                   \/ \E transcription \in ApiReturns : TranscribeApiReturns(p, transcription))
        /\ WF_vars(\E id \in uuid4(table), fault \in CreateFaults :
                       TranscribeExcept(p, id, fault))
        /\ WF_vars(\E id \in uuid4(table), fault \in CreateFaults :
                       TranscribeStore(p, id, fault))

\* ----------------------------------------------------------------- claims
\* Steps of a handler, told by what they change.
\* p enters transcribe_and_store (validation included).
ValidateStepOf(p) ==
    pc[p] = "idle" /\ call'[p] # call[p] /\ call'[p].filename # <<>>

\* p leaves the except branch of the API call.
ExceptStepOf(p) == pc[p] = "except" /\ pc'[p] = "idle"

\* p leaves the success path.
StoreStepOf(p) == pc[p] = "store" /\ pc'[p] = "idle"

\* table' is table with exactly one row added at the end.
OneRowAdded ==
    Len(table') = Len(table) + 1 /\ SubSeq(table', 1, Len(table)) = table

\* The row a step added.
AddedRow == table'[Len(table')]

\* TranscriptionFailed and StorageFailed as the caller sees them.
IsTranscriptionFailed(r) ==
    r.op = "transcribe" /\ r.exc = "RuntimeError" /\ r.msg = "Groq transcription failed"

IsStorageFailed(r) ==
    r.op = "transcribe" /\ r.exc = "RuntimeError" /\ r.msg = "Failed to store transcript"

\* t is s without its leading and trailing whitespace.
IsTrimOf(t, s) ==
    \E i \in 0 .. Len(s), j \in 0 .. Len(s) :
        /\ i <= j
        /\ t = [k \in 1 .. j - i |-> s[i + k]]
        /\ \A k \in 1 .. i : s[k] \in {" ", "\n", "\t"}
        /\ \A k \in j + 1 .. Len(s) : s[k] \in {" ", "\n", "\t"}
        /\ t # <<>> => t[1] \notin {" ", "\n", "\t"} /\ t[Len(t)] \notin {" ", "\n", "\t"}

\* C1 (as claimed): whenever the API call of transcribe_and_store raised, the
\* call adds exactly one row, with status failed and raw_text "", and ends
\* with TranscriptionFailed, whatever the insert of that row does.
C1_FailedRowAlwaysWritten ==
    [][\A p \in Procs :
          ExceptStepOf(p) =>
              /\ OneRowAdded
              /\ AddedRow.status = "failed"
              /\ AddedRow.raw_text = <<>>
              /\ IsTranscriptionFailed(result'[p])]_vars

\* C2: a call whose byte length is 0 or above 25 MiB ends with ValueError in
\* its first step, and that step makes no API call and no database
\* operation: API call count, table, sessions and server clock stay as they
\* were.
C2_InvalidInputNoSideEffect ==
    [][\A p \in Procs :
          (/\ ValidateStepOf(p)
           /\ (call'[p].audio_len = 0 \/ call'[p].audio_len > 25 * 1024 * 1024))
          => /\ result'[p].op = "transcribe"
             /\ result'[p].exc = "ValueError"
             /\ pc'[p] = "idle"
             /\ call'[p].api = "none"
             /\ call'[p].attempts = 0
             /\ groq_calls' = groq_calls
             /\ table' = table
             /\ sess' = sess
             /\ clock' = clock]_vars

\* C2 witness: with rows stored and API calls made, one handler's empty
\* upload and another's oversized upload have both ended with ValueError.
C2_Witness ==
    /\ table # <<>>
    /\ groq_calls > 0
    /\ \E p \in Procs, q \in Procs :
        /\ result[p].exc = "ValueError" /\ call[p].audio_len = 0
        /\ result[q].exc = "ValueError" /\ call[q].audio_len > 25 * 1024 * 1024

\* C3: a call whose API call returned and which ends normally has added
\* exactly one row, with status completed, the call's filename and raw_text
\* the API text without surrounding whitespace ("" for an empty or missing
\* text), and returns that row's id and that text.
C3_CompletedRowStored ==
    [][\A p \in Procs :
          (StoreStepOf(p) /\ result'[p].exc = "")
          => /\ OneRowAdded
             /\ AddedRow.status = "completed"
             /\ AddedRow.source_filename = call[p].filename
             /\ IF call[p].transcription.none
                THEN AddedRow.raw_text = <<>>
                ELSE IsTrimOf(AddedRow.raw_text, call[p].transcription.s)
             /\ result'[p].id = AddedRow.id
             /\ result'[p].text = AddedRow.raw_text
             /\ call'[p].attempts = 1]_vars

\* C3 witness: a call has returned "h i" for the API text " h i\n", and
\* another call has stored a completed row with empty text.
C3_Witness ==
    /\ \E p \in Procs :
        /\ result[p].op = "transcribe" /\ result[p].exc = ""
        /\ call[p].transcription = ApiText(<<" ", "h", " ", "i", "\n">>)
        /\ result[p].text = <<"h", " ", "i">>
        /\ \E i \in 1 .. Len(table) :
               table[i].id = result[p].id /\ table[i].raw_text = <<"h", " ", "i">>
    /\ \E i \in 1 .. Len(table) :
           table[i].status = "completed" /\ table[i].raw_text = <<>>

\* C4 (as claimed): when the API call returned and create_transcript raised,
\* the call ends with StorageFailed after one insert attempt and the table
\* holds the rows it held before.
C4_StorageFailedLeavesTable ==
    [][\A p \in Procs :
          (StoreStepOf(p) /\ result'[p].exc # "")
          => /\ IsStorageFailed(result'[p])
             /\ call'[p].attempts = 1
             /\ table' = table]_vars

\* C5: no step updates or deletes a row: every row of the table is still in
\* it after the step, with the same id, status, raw_text, source_filename,
\* duration_seconds and created_at.
C5_RowsNeverChange ==
    [][\A i \in 1 .. Len(table) :
          \E j \in 1 .. Len(table') : table'[j] = table[i]]_vars

\* C5 witness: a failed row is followed by a completed row of the same
\* filename (the input was resubmitted), and the failed row is still there.
C5_Witness ==
    \E i \in 1 .. Len(table), j \in 1 .. Len(table) :
        /\ i < j
        /\ table[i].status = "failed"
        /\ table[i].raw_text = <<>>
        /\ table[j].status = "completed"
        /\ table[j].source_filename = table[i].source_filename
        /\ table[j].id # table[i].id

\* C6: validation fails with ValueError exactly when the byte length is 0 or
\* above 25 MiB; every other upload, whatever its filename, goes on to the
\* API call.
C6_ValidationIffSize ==
    [][\A p \in Procs :
          ValidateStepOf(p) =>
              IF call'[p].audio_len = 0 \/ call'[p].audio_len > 25 * 1024 * 1024
              THEN result'[p].exc = "ValueError" /\ pc'[p] = "idle"
              ELSE result'[p].exc = "" /\ pc'[p] = "api"]_vars

\* C6 witness: an upload of exactly 25 MiB whose filename has an unsupported
\* extension has reached the API, and so has one without extension.
C6_Witness ==
    \E p \in Procs :
        /\ call[p].audio_len = 25 * 1024 * 1024
        /\ call[p].filename \in {dot_x, no_ext}
        /\ call[p].warned
        /\ call[p].api # "none"

\* p's get_all_transcripts returns.
ListStepOf(p) ==
    result'[p] # result[p] /\ result'[p].op = "list" /\ result'[p].exc = ""

\* rows is the page (skip, limit) of the table sorted newest first: at most
\* limit rows, as many as the table has left after skip, each a row of the
\* table with exactly skip + k - 1 rows newer than it.
IsPageOf(rows, tbl, skip, limit) ==
    /\ Len(rows) <= limit
    /\ Len(rows) = IF Len(tbl) - skip < 0 THEN 0
                   ELSE IF Len(tbl) - skip < limit THEN Len(tbl) - skip ELSE limit
    /\ \A k \in 1 .. Len(rows) :
        /\ \E i \in 1 .. Len(tbl) :
               /\ tbl[i].id = rows[k].id
               /\ tbl[i].created_at = rows[k].created_at
               /\ tbl[i].source_filename = rows[k].source_filename
               /\ tbl[i].raw_text = rows[k].raw_text
        /\ Cardinality({i \in 1 .. Len(tbl) : tbl[i].created_at > rows[k].created_at})
               = skip + k - 1
    /\ \A k \in 1 .. Len(rows), m \in 1 .. Len(rows) :
           k < m => rows[k].created_at >= rows[m].created_at

\* C7 (as claimed): get_all_transcripts(skip, limit) returns the page
\* (skip, limit) of the table sorted by created_at descending, and with
\* skip = 0 and limit >= 1 its first row is the row inserted last.
C7_NewestInsertFirst ==
    [][\A p \in Procs :
          ListStepOf(p) =>
              /\ IsPageOf(result'[p].rows, table, result'[p].skip, result'[p].limit)
              /\ (result'[p].skip = 0 /\ result'[p].limit >= 1 /\ table # <<>>)
                 => result'[p].rows[1].id = table[Len(table)].id]_vars

\* C8: the row create_transcript(d) returned carries d's source_filename,
\* duration_seconds, raw_text and status and a non-null id and created_at,
\* and a get_transcript_by_id of its id that finds a row returns that same
\* row, id and created_at included.
C8_CreateGetRoundTrip ==
    \A p \in Procs :
        (result[p].op = "create" /\ result[p].exc = "")
        => /\ Len(result[p].rows) = 1
           /\ result[p].rows[1].source_filename = result[p].data.source_filename
           /\ result[p].rows[1].duration_seconds = result[p].data.duration_seconds
           /\ result[p].rows[1].raw_text = result[p].data.raw_text
           /\ result[p].rows[1].status = result[p].data.status
           /\ result[p].rows[1].id >= 1
           /\ result[p].rows[1].created_at >= 1
           /\ \A q \in Procs :
                  (/\ result[q].op = "get" /\ result[q].exc = ""
                   /\ result[q].id = result[p].rows[1].id
                   /\ result[q].rows # <<>>)
                  => result[q].rows = result[p].rows

\* C8 witness: one handler created a failed record, another then fetched the
\* row by its id.
C8_Witness ==
    \E p \in Procs, q \in Procs :
        /\ result[p].op = "create" /\ result[p].exc = ""
        /\ result[p].data.status = failed
        /\ result[q].op = "get" /\ result[q].exc = ""
        /\ result[q].id = result[p].rows[1].id
        /\ result[q].rows # <<>>

\* p's call is over, passed validation and met no database error.
CleanCall(p) ==
    /\ pc[p] = "idle"
    /\ result[p].op = "transcribe"
    /\ call[p].api # "none"
    /\ result[p].exc = "" \/ IsTranscriptionFailed(result[p])

\* C9: calls that passed validation and met no database error have each
\* added exactly one row of their own: the rows of two such calls have
\* different ids, and each row is in the table with its call's filename and
\* the status and text of its call's API outcome; the step that ends such a
\* call adds exactly one row.
C9_CallsIndependent ==
    /\ [](\A p \in Procs :
            CleanCall(p) =>
                /\ call[p].attempts = 1
                /\ Len(call[p].db_transcript) = 1
                /\ \E i \in 1 .. Len(table) :
                       /\ table[i].id = call[p].db_transcript[1].id
                       /\ table[i].source_filename = call[p].filename
                       /\ IF call[p].api = "raised"
                          THEN table[i].status = "failed" /\ table[i].raw_text = <<>>
                          ELSE /\ table[i].status = "completed"
                               /\ IF call[p].transcription.none
                                  THEN table[i].raw_text = <<>>
                                  ELSE IsTrimOf(table[i].raw_text,
                                                call[p].transcription.s)
                /\ \A q \in Procs \ {p} :
                       CleanCall(q) =>
                           call[q].db_transcript[1].id # call[p].db_transcript[1].id)
    /\ [][\A p \in Procs :
            ((ExceptStepOf(p) \/ StoreStepOf(p))
             /\ (result'[p].exc = "" \/ IsTranscriptionFailed(result'[p])))
            => OneRowAdded]_vars

\* C9 witness: two calls with the same filename and length are over without
\* a database error, one failed at the API and one completed, and their rows
\* have different ids.
C9_Witness ==
    \E p \in Procs, q \in Procs :
        /\ p # q
        /\ CleanCall(p) /\ CleanCall(q)
        /\ call[p].filename = call[q].filename
        /\ call[p].audio_len = call[q].audio_len
        /\ call[p].api = "raised" /\ call[q].api = "returned"
        /\ call[p].db_transcript[1].id # call[q].db_transcript[1].id
        /\ Len(table) = 2

\* C10: a session opened by get_db is closed in the end, whatever the
\* outcome of the handler; it is closed at most once, and never while its
\* handler is inside transcribe_and_store.
C10_SessionAlwaysClosed ==
    /\ \A p \in Procs : (sess[p].state = "open") ~> (sess[p].state = "closed")
    /\ [](\A p \in Procs :
            /\ sess[p].closes <= 1
            /\ sess[p].state = "closed" => sess[p].closes = 1
            /\ pc[p] # "idle" => sess[p].state = "open")
    /\ [][\A p \in Procs :
            (sess[p].state = "open" /\ sess'[p].state # "open")
            => pc[p] = "idle" /\ sess'[p].state = "closed" /\ sess'[p].tx = 0]_vars

\* C10 witness: sessions are closed after a call that ended with
\* TranscriptionFailed and after one that ended with ValueError.
C10_Witness ==
    \E p \in Procs, q \in Procs :
        /\ sess[p].state = "closed" /\ sess[p].closes = 1
        /\ IsTranscriptionFailed(result[p])
        /\ sess[q].state = "closed" /\ sess[q].closes = 1
        /\ result[q].exc = "ValueError"

\* p's call of a persistence operation ends.
CrudStepOf(p) ==
    result'[p] # result[p] /\ result'[p].op \in {"create", "get", "list", "count"}

\* C11 (as claimed): a persistence operation that meets a database error
\* re-raises it with the session's transaction rolled back, and a failed
\* create_transcript leaves the table with the rows it had before the call.
C11_FailedOperationRolledBack ==
    [][\A p \in Procs :
          (CrudStepOf(p) /\ result'[p].exc # "")
          => /\ result'[p].exc = "SQLAlchemyError"
             /\ sess'[p].tx = 0
             /\ result'[p].rows = <<>>
             /\ table' = table]_vars

\* p's get_transcript_by_id ends, for an id that no row of the table has.
AbsentGetStepOf(p) ==
    /\ result'[p] # result[p]
    /\ result'[p].op = "get"
    /\ \A i \in 1 .. Len(table) : table[i].id # result'[p].id

====
